---- MODULE Spec2Model ----
(***************************************************************************)
(* Lumina Python SDK (packages/sdk-python/lumina): the Call Tracer         *)
(* (trace / trace_llm, sync and async paths), the Response Normalizer      *)
(* (_set_llm_post_attrs) and the Cost Estimator (_calculate_cost).         *)
(*                                                                         *)
(* The OpenTelemetry span is modelled by the calls lumina.py makes on it:  *)
(* start_as_current_span creates the span on entry and ends it on every    *)
(* exit of the with block; set_attribute, set_status and record_exception  *)
(* are recorded as they are called by lumina.py.                           *)
(***************************************************************************)
EXTENDS Integers, Sequences, FiniteSets, TLC

----------------------------------------------------------------------------
(* Bounds of the model *)

\* number of traced calls that may be in flight together
NumCalls == 2
\* token counts reported by a provider range over 0..MaxTok
MaxTok == 2
\* measured durations (ms) range over 0..MaxDur
MaxDur == 1
\* number of Lumina instances constructed in one process
MaxInstances == 2

Calls == 1..NumCalls

----------------------------------------------------------------------------
(* Python values *)

None == [t |-> "None"]
I(n) == [t |-> "int", v |-> n]
S(s) == [t |-> "str", v |-> s]
PyList(items) == [t |-> "list", v |-> items]
PyTuple(items) == [t |-> "tuple", v |-> items]
\* a dict, as the sequence of its <<key, value>> items in insertion order
PyDict(items) == [t |-> "dict", v |-> items]
\* an object with the attributes in DOMAIN fields
Obj(fields) == [t |-> "object", v |-> fields]
\* a value json.dumps cannot serialise (a set, an arbitrary object)
Opaque == [t |-> "opaque"]
\* the coroutine object a call of an async function returns; it carries none
\* of the attributes of the response it will produce
Coroutine == [t |-> "coroutine"]

\* bool(x)
Truthy(x) ==
    CASE x.t = "None" -> FALSE
      [] x.t = "bool" -> x.v
      [] x.t = "int" -> x.v # 0
      [] x.t = "str" -> Len(x.v) > 0
      [] x.t = "list" -> Len(x.v) > 0
      [] x.t = "tuple" -> Len(x.v) > 0
      [] x.t = "dict" -> Len(x.v) > 0
      [] OTHER -> TRUE

\* a or b
PyOr(a, b) == IF Truthy(a) THEN a ELSE b

\* getattr(o, name, default)
GetAttr(o, name, default) ==
    IF o.t = "object" /\ name \in DOMAIN o.v THEN o.v[name] ELSE default

\* isinstance(x, list), isinstance(x, str)
IsList(x) == x.t = "list"
IsStr(x) == x.t = "str"

----------------------------------------------------------------------------
(* Exceptions.  isException tells a subclass of Exception from one that    *)
(* derives from BaseException only (asyncio.CancelledError, SystemExit,    *)
(* KeyboardInterrupt); by names the code that raised it, which with type   *)
(* and msg stands for the identity of the exception object.                *)

Exc(type, msg, isException, by) ==
    [type |-> type, msg |-> msg, isException |-> isException, by |-> by]

NoExc == [type |-> "", msg |-> "", isException |-> FALSE, by |-> ""]

RateLimited == Exc("RateLimitError", "rate limited", TRUE, "fn")
\* a failure of the unit of work whose class derives from BaseException only
NonExceptionFailure == Exc("BaseException", "stop", FALSE, "fn")
\* the asyncio.CancelledError that the awaited unit of work raises when cancelled
Cancelled == Exc("CancelledError", "", FALSE, "fn")
JsonTypeError ==
    Exc("TypeError", "Object is not JSON serializable", TRUE, "json.dumps")
AddTypeError ==
    Exc("TypeError", "can only concatenate str to str", TRUE, "_set_llm_post_attrs")
DivTypeError ==
    Exc("TypeError", "unsupported operand type(s) for /", TRUE, "_calculate_cost")

\* str(exc)
StrOfExc(e) == e.msg

----------------------------------------------------------------------------
(* semantic_conventions.py *)

LLM_SYSTEM == "gen_ai.system"
LLM_RESPONSE_MODEL == "gen_ai.response.model"
LLM_RESPONSE_ID == "gen_ai.response.id"
LLM_USAGE_PROMPT_TOKENS == "gen_ai.usage.prompt_tokens"
LLM_USAGE_COMPLETION_TOKENS == "gen_ai.usage.completion_tokens"
LLM_USAGE_TOTAL_TOKENS == "gen_ai.usage.total_tokens"
LLM_PROMPT == "gen_ai.prompt"
LLM_COMPLETION == "gen_ai.completion"
LUMINA_ENVIRONMENT == "lumina.environment"
LUMINA_SERVICE_NAME == "lumina.service_name"
LUMINA_COST_USD == "lumina.cost_usd"
LUMINA_TAGS == "lumina.tags"
DURATION_MS == "duration_ms"

----------------------------------------------------------------------------
VARIABLES
    environ,    \* os.environ: the variables load_sdk_config reads
    config,     \* config[i]: self.config of the i-th Lumina constructed
    provider,   \* provider[i]: self._provider of the i-th Lumina constructed
    _instance,  \* the module-level _instance
    reply,      \* the last call of the module-level API and its outcome
    estimate,   \* the last calls of _calculate_cost and their results
    pc,         \* pc[c]: where traced call c stands
    args,       \* args[c]: the arguments of call c
    spans,      \* spans[c]: the span of call c
    local,      \* local[c]: result and pending exception inside the tracer
    uow,        \* uow[c]: the unit of work: invocations and completion
    ret,        \* ret[c]: what the caller of trace/trace_llm has received
    sink        \* span ids handed to the span processor by span.end()

vars ==
    <<environ, config, provider, _instance, reply, estimate,
      pc, args, spans, local, uow, ret, sink>>

\* what a traced call never touches, and what the module-level API never does
moduleVars == <<environ, provider, _instance, reply, estimate>>
tracerVars == <<pc, args, spans, local, uow, ret, sink>>

----------------------------------------------------------------------------
(* Effects of a helper on a span: the attribute writes it made, in order,  *)
(* each <<key, value>>, and the exception it raised (NoExc when it         *)
(* returned).                                                              *)

Write(key, value) == <<key, value>>
Returned(ws) == [writes |-> ws, exc |-> NoExc]
Raised(ws, e) == [writes |-> ws, exc |-> e]

\* json.dumps(value): an int gives its digits, a str is quoted, a list of
\* str gives the bracketed quoted items; an unserialisable value raises
RECURSIVE JsonItems(_)
JsonItems(items) ==
    IF Len(items) = 0 THEN ""
    ELSE "\"" \o Head(items).v \o "\""
         \o (IF Len(items) > 1 THEN ", " ELSE "") \o JsonItems(Tail(items))

JsonSerialisable(value) ==
    \/ value.t \in {"None", "int", "str"}
    \/ value.t = "list" /\ \A i \in 1..Len(value.v) : value.v[i].t = "str"

JsonDumps(value) ==
    CASE value.t = "None" -> S("null")
      [] value.t = "int" -> S(ToString(value.v))
      [] value.t = "str" -> S("\"" \o value.v \o "\"")
      [] value.t = "list" -> S("[" \o JsonItems(value.v) \o "]")

\* the metadata loop of _set_common_attrs: entries in dict order, stopping
\* at the first value json.dumps raises on
RECURSIVE MetadataWrites(_)
MetadataWrites(entries) ==
    IF Len(entries) = 0 THEN Returned(<<>>)
    ELSE LET key == Head(entries)[1]
             value == Head(entries)[2]
         IN IF ~JsonSerialisable(value) THEN Raised(<<>>, JsonTypeError)
            ELSE LET rest == MetadataWrites(Tail(entries))
                 IN [writes |-> <<Write(key, JsonDumps(value))>> \o rest.writes,
                     exc |-> rest.exc]

\* Lumina._set_common_attrs(span, metadata, tags); metadata is None or a
\* dict given as the sequence of its <<key, value>> items, tags is None or a
\* list of str
_set_common_attrs(cfg, metadata, tags) ==
    LET md == IF Truthy(metadata) THEN MetadataWrites(metadata.v)
              ELSE Returned(<<>>)
        tg == IF Truthy(tags) THEN <<Write(LUMINA_TAGS, JsonDumps(tags))>>
              ELSE <<>>
        env == <<Write(LUMINA_ENVIRONMENT, cfg.environment)>>
        svc == IF Truthy(cfg.service_name)
               THEN <<Write(LUMINA_SERVICE_NAME, cfg.service_name)>>
               ELSE <<>>
    IN IF md.exc # NoExc THEN md
       ELSE Returned(md.writes \o tg \o env \o svc)

\* Lumina._set_llm_pre_attrs(span, system, prompt)
_set_llm_pre_attrs(system, prompt) ==
    Returned((IF Truthy(system) THEN <<Write(LLM_SYSTEM, system)>> ELSE <<>>)
             \o (IF Truthy(prompt) THEN <<Write(LLM_PROMPT, prompt)>> ELSE <<>>))

----------------------------------------------------------------------------
(* Cost Estimator *)

\* k in model, for str k and model
IsSubstring(k, model) ==
    \E i \in 1..(Len(model) - Len(k) + 1) : SubSeq(model, i, i + Len(k) - 1) = k

\* _PRICING in definition order (a dict iterates in insertion order).
\* Prices are USD per 1M tokens, written in hundredths: 30.0 is 3000.
_PRICING ==
    << [key |-> "gpt-4", input |-> 3000, output |-> 6000],
       [key |-> "gpt-4-turbo", input |-> 1000, output |-> 3000],
       [key |-> "gpt-3.5-turbo", input |-> 50, output |-> 150],
       [key |-> "claude-sonnet-4", input |-> 300, output |-> 1500],
       [key |-> "claude-3-opus", input |-> 1500, output |-> 7500],
       [key |-> "claude-3-sonnet", input |-> 300, output |-> 1500],
       [key |-> "claude-3-haiku", input |-> 25, output |-> 125] >>

\* the (1.0, 2.0) default of _PRICING.get, in hundredths
DefaultPrice == [input |-> 100, output |-> 200]

\* ModelKeyIndex taking the longest key that matches
ModelKeyIndex_Longest(model) ==
    LET hits == {i \in 1..Len(_PRICING) : IsSubstring(_PRICING[i].key, model)}
    IN IF hits = {} THEN 0
       ELSE CHOOSE i \in hits :
                \A j \in hits : Len(_PRICING[j].key) <= Len(_PRICING[i].key)

\* next((k for k in _PRICING if k in model), None), as an index (0: None)
ModelKeyIndex(model) ==
    LET hits == {i \in 1..Len(_PRICING) : IsSubstring(_PRICING[i].key, model)}
    IN IF hits = {} THEN 0 ELSE CHOOSE i \in hits : \A j \in hits : i <= j

\* model_key: the key found, or None
ModelKeyOf(model) ==
    IF ModelKeyIndex(model) = 0 THEN None
    ELSE S(_PRICING[ModelKeyIndex(model)].key)

\* input_price, output_price = _PRICING.get(model_key or "", (1.0, 2.0))
PriceOf(model) ==
    IF ModelKeyIndex(model) = 0 THEN DefaultPrice
    ELSE [input |-> _PRICING[ModelKeyIndex(model)].input,
          output |-> _PRICING[ModelKeyIndex(model)].output]

\* a float of USD, held exactly as the integer number of 1e-8 USD
Usd(n) == [t |-> "float", v |-> n]

\* _calculate_cost(model, prompt_tokens, completion_tokens): model a str,
\* the token counts Python values.  Dividing a str by 1_000_000 raises.
_calculate_cost(model, prompt_tokens, completion_tokens) ==
    IF prompt_tokens.t # "int" \/ completion_tokens.t # "int"
    THEN [exc |-> DivTypeError, v |-> Usd(0)]
    ELSE [exc |-> NoExc,
          v |-> Usd(prompt_tokens.v * PriceOf(model).input
                    + completion_tokens.v * PriceOf(model).output)]

----------------------------------------------------------------------------
(* Response Normalizer: Lumina._set_llm_post_attrs *)

\* a + b: ints add, strs concatenate, an int and a str raise TypeError
PyAdd(a, b) ==
    CASE a.t = "int" /\ b.t = "int" -> [exc |-> NoExc, v |-> I(a.v + b.v)]
      [] a.t = "str" /\ b.t = "str" -> [exc |-> NoExc, v |-> S(a.v \o b.v)]
      [] OTHER -> [exc |-> AddTypeError, v |-> None]

\* model = getattr(result, "model", "") or ""
ModelOf(result) == PyOr(GetAttr(result, "model", S("")), S(""))

\* response_id = getattr(result, "id", "") or ""
ResponseIdOf(result) == PyOr(GetAttr(result, "id", S("")), S(""))

\* CompletionOf with the two shapes tried in the other order
CompletionOf_ContentFirst(result) ==
    LET choices == GetAttr(result, "choices", None)
        content == GetAttr(result, "content", None)
    IN IF IsList(content) /\ Truthy(content)
       THEN LET first == content.v[1]
            IN IF GetAttr(first, "type", None) = S("text")
               THEN PyOr(GetAttr(first, "text", S("")), S(""))
               ELSE S("")
       ELSE IF IsStr(content) THEN content
       ELSE IF Truthy(choices) /\ IsList(choices)
            THEN LET msg == GetAttr(choices.v[1], "message", None)
                 IN IF Truthy(msg)
                    THEN PyOr(GetAttr(msg, "content", None), S(""))
                    ELSE S("")
            ELSE S("")

\* the completion text: OpenAI choices[0].message.content, else Anthropic
\* content[0].text, else a plain-string content, else ""
CompletionOf(result) ==
    LET choices == GetAttr(result, "choices", None)
        content == GetAttr(result, "content", None)
    IN IF Truthy(choices) /\ IsList(choices)
       THEN LET msg == GetAttr(choices.v[1], "message", None)
            IN IF Truthy(msg)
               THEN PyOr(GetAttr(msg, "content", None), S(""))
               ELSE S("")
       ELSE IF IsList(content) /\ Truthy(content)
            THEN LET first == content.v[1]
                 IN IF GetAttr(first, "type", None) = S("text")
                    THEN PyOr(GetAttr(first, "text", S("")), S(""))
                    ELSE S("")
            ELSE IF IsStr(content) THEN content ELSE S("")

\* prompt_tokens = getattr(usage, "prompt_tokens", None)
\*                 or getattr(usage, "input_tokens", None) or 0
PromptTokensOf(usage) ==
    PyOr(PyOr(GetAttr(usage, "prompt_tokens", None),
              GetAttr(usage, "input_tokens", None)), I(0))

\* completion_tokens = getattr(usage, "completion_tokens", None)
\*                     or getattr(usage, "output_tokens", None) or 0
CompletionTokensOf(usage) ==
    PyOr(PyOr(GetAttr(usage, "completion_tokens", None),
              GetAttr(usage, "output_tokens", None)), I(0))

\* total_tokens = getattr(usage, "total_tokens", None)
\*                or prompt_tokens + completion_tokens
\* (the sum is evaluated, and can raise, only when the first operand is falsy)
TotalTokensOf(usage) ==
    LET reported == GetAttr(usage, "total_tokens", None)
    IN IF Truthy(reported) THEN [exc |-> NoExc, v |-> reported]
       ELSE PyAdd(PromptTokensOf(usage), CompletionTokensOf(usage))

NoDigest ==
    [done |-> FALSE, hasUsage |-> FALSE, completion |-> None,
     prompt_tokens |-> None, completion_tokens |-> None,
     total_tokens |-> None, cost |-> None]

\* if prompt_tokens: ... if completion_tokens: ... if total_tokens: ...
TokenWrites(prompt_tokens, completion_tokens, total_tokens) ==
    (IF Truthy(prompt_tokens)
     THEN <<Write(LLM_USAGE_PROMPT_TOKENS, prompt_tokens)>> ELSE <<>>)
    \o (IF Truthy(completion_tokens)
        THEN <<Write(LLM_USAGE_COMPLETION_TOKENS, completion_tokens)>> ELSE <<>>)
    \o (IF Truthy(total_tokens)
        THEN <<Write(LLM_USAGE_TOTAL_TOKENS, total_tokens)>> ELSE <<>>)

\* CostWrites without the test of cost > 0
CostWrites_Always(cost) == <<Write(LUMINA_COST_USD, cost)>>

\* if cost > 0: span.set_attribute(SC.LUMINA_COST_USD, cost)
CostWrites(cost) ==
    IF cost.v > 0 THEN <<Write(LUMINA_COST_USD, cost)>> ELSE <<>>

\* Lumina._set_llm_post_attrs(span, result): the writes made on the span, the
\* exception raised if any, and the values of the method's local variables
_set_llm_post_attrs(result) ==
    LET model == ModelOf(result)
        response_id == ResponseIdOf(result)
        completion == CompletionOf(result)
        usage == GetAttr(result, "usage", None)
        prompt_tokens == PromptTokensOf(usage)
        completion_tokens == CompletionTokensOf(usage)
        total == TotalTokensOf(usage)
        cost == _calculate_cost(model.v, prompt_tokens, completion_tokens)
        head ==
            (IF Truthy(model) THEN <<Write(LLM_RESPONSE_MODEL, model)>> ELSE <<>>)
            \o (IF Truthy(response_id)
                THEN <<Write(LLM_RESPONSE_ID, response_id)>> ELSE <<>>)
            \o (IF Truthy(completion)
                THEN <<Write(LLM_COMPLETION, completion)>> ELSE <<>>)
        tokens == TokenWrites(prompt_tokens, completion_tokens, total.v)
        digest == [NoDigest EXCEPT !.done = TRUE, !.completion = completion]
        counted == [digest EXCEPT !.hasUsage = TRUE,
                                  !.prompt_tokens = prompt_tokens,
                                  !.completion_tokens = completion_tokens]
    IN IF ~Truthy(usage)
       THEN [writes |-> head, exc |-> NoExc, digest |-> digest]
       ELSE IF total.exc # NoExc
       THEN [writes |-> head, exc |-> total.exc, digest |-> counted]
       ELSE IF cost.exc # NoExc
       THEN [writes |-> head \o tokens, exc |-> cost.exc,
             digest |-> [counted EXCEPT !.total_tokens = total.v]]
       ELSE [writes |-> head \o tokens
                        \o CostWrites(cost.v),
             exc |-> NoExc,
             digest |-> [counted EXCEPT !.total_tokens = total.v,
                                        !.cost = cost.v]]

----------------------------------------------------------------------------
(* The span: what lumina.py has done to it.  log lists the operations in   *)
(* the order they were made: the key of each set_attribute, and the marks  *)
(* "<record_exception>", "<set_status>", "<end>".                          *)

NewSpan ==
    [created |-> 0, attrs |-> <<>>, log |-> <<>>, status |-> "UNSET",
     description |-> "", statusSets |-> 0, events |-> <<>>, ended |-> 0]

\* span.set_attribute(key, value): a later write of a key replaces the earlier
SetAttribute(span, key, value) ==
    [span EXCEPT !.attrs = [k \in (DOMAIN span.attrs) \cup {key} |->
                               IF k = key THEN value ELSE span.attrs[k]],
                 !.log = Append(@, key)]

RECURSIVE ApplyWrites(_, _)
ApplyWrites(span, ws) ==
    IF Len(ws) = 0 THEN span
    ELSE ApplyWrites(SetAttribute(span, Head(ws)[1], Head(ws)[2]), Tail(ws))

\* span.set_status(code, description)
SetStatus(span, code, description) ==
    [span EXCEPT !.status = code, !.description = description,
                 !.statusSets = @ + 1, !.log = Append(@, "<set_status>")]

\* span.record_exception(exc)
RecordException(span, e) ==
    [span EXCEPT !.events = Append(@, e), !.log = Append(@, "<record_exception>")]

\* leaving the with block of start_as_current_span: span.end()
EndSpan(span) ==
    [span EXCEPT !.ended = @ + 1, !.log = Append(@, "<end>")]

HasAttr(span, key) == key \in DOMAIN span.attrs

----------------------------------------------------------------------------
(* config.py: load_sdk_config, and types.py: SdkConfig *)

\* True / False
B(b) == [t |-> "bool", v |-> b]

ValueError == Exc("ValueError", "invalid literal for int() with base 10", TRUE, "int")

Uppercase == "ABCDEFGHIJKLMNOPQRSTUVWXYZ"
Lowercase == "abcdefghijklmnopqrstuvwxyz"
Digits == "0123456789"

\* the 1-based position of the one-character string ch in alphabet, 0 if none
IndexIn(alphabet, ch) ==
    LET hits == {i \in 1..Len(alphabet) : SubSeq(alphabet, i, i) = ch}
    IN IF hits = {} THEN 0 ELSE CHOOSE i \in hits : TRUE

\* s.lower(), for s of ASCII characters
RECURSIVE Lower(_)
Lower(s) ==
    IF Len(s) = 0 THEN ""
    ELSE LET ch == SubSeq(s, 1, 1)
             i == IndexIn(Uppercase, ch)
         IN (IF i = 0 THEN ch ELSE SubSeq(Lowercase, i, i))
            \o Lower(SubSeq(s, 2, Len(s)))

IsDigits(s) ==
    Len(s) > 0 /\ \A i \in 1..Len(s) : IndexIn(Digits, SubSeq(s, i, i)) # 0

RECURSIVE DigitsValue(_)
DigitsValue(s) ==
    IF Len(s) = 0 THEN 0
    ELSE 10 * DigitsValue(SubSeq(s, 1, Len(s) - 1))
         + (IndexIn(Digits, SubSeq(s, Len(s), Len(s))) - 1)

\* int(s) for a str s without sign, blanks or underscores: the value of a
\* string of decimal digits, ValueError for anything else
PyInt(s) ==
    IF IsDigits(s.v) THEN [exc |-> NoExc, v |-> I(DigitsValue(s.v))]
    ELSE [exc |-> ValueError, v |-> None]

\* the environment variables load_sdk_config reads
EnvNames ==
    {"LUMINA_ENABLED", "LUMINA_BATCH_INTERVAL_MS", "LUMINA_API_KEY",
     "LUMINA_ENDPOINT", "LUMINA_SERVICE_NAME", "LUMINA_ENVIRONMENT",
     "LUMINA_CUSTOMER_ID", "LUMINA_BATCH_SIZE", "LUMINA_MAX_RETRIES",
     "LUMINA_TIMEOUT_MS"}

\* os.environ with none of them set
EmptyEnviron == [n \in EnvNames |-> None]

\* os.environ.get(name, default), os.environ.get(name)
EnvironGet(env, name, default) == IF env[name] = None THEN default ELSE env[name]

\* the fields of the dataclass SdkConfig: hasattr(config, key)
SdkConfigFields ==
    {"endpoint", "environment", "enabled", "batch_size", "batch_interval_ms",
     "timeout_ms", "max_retries", "api_key", "service_name", "customer_id",
     "flush_interval_ms"}

HasField(key) == key \in SdkConfigFields

\* ApplyOverrides without the test of value is not None
RECURSIVE ApplyOverrides_NullsToo(_, _)
ApplyOverrides_NullsToo(cfg, items) ==
    IF Len(items) = 0 THEN cfg
    ELSE LET key == Head(items)[1]
             value == Head(items)[2]
         IN ApplyOverrides_NullsToo(IF HasField(key)
                                    THEN [cfg EXCEPT ![key] = value]
                                    ELSE cfg,
                                    Tail(items))

\* the loop over overrides.items(): setattr for a known key with a value
\* that is not None, in dict order
RECURSIVE ApplyOverrides(_, _)
ApplyOverrides(cfg, items) ==
    IF Len(items) = 0 THEN cfg
    ELSE LET key == Head(items)[1]
             value == Head(items)[2]
         IN ApplyOverrides(IF HasField(key) /\ value # None
                           THEN [cfg EXCEPT ![key] = value]
                           ELSE cfg,
                           Tail(items))

\* the flush interval load_sdk_config passes to SdkConfig
FlushIntervalOf(batch_interval_ms) == batch_interval_ms

\* load_sdk_config(overrides) with os.environ = env: the settings record, or
\* the ValueError of the first int() that rejects its variable
load_sdk_config(env, overrides) ==
    LET enabled_str == Lower(EnvironGet(env, "LUMINA_ENABLED", S("true")).v)
        enabled == enabled_str \notin {"false", "0", "no"}
        batch_interval_ms ==
            PyInt(EnvironGet(env, "LUMINA_BATCH_INTERVAL_MS", S("5000")))
        batch_size == PyInt(EnvironGet(env, "LUMINA_BATCH_SIZE", S("10")))
        max_retries == PyInt(EnvironGet(env, "LUMINA_MAX_RETRIES", S("3")))
        timeout_ms == PyInt(EnvironGet(env, "LUMINA_TIMEOUT_MS", S("30000")))
        cfg ==
            [api_key |-> EnvironGet(env, "LUMINA_API_KEY", None),
             endpoint |-> EnvironGet(env, "LUMINA_ENDPOINT",
                                     S("http://localhost:9411/v1/traces")),
             service_name |-> EnvironGet(env, "LUMINA_SERVICE_NAME", None),
             environment |-> EnvironGet(env, "LUMINA_ENVIRONMENT", S("live")),
             customer_id |-> EnvironGet(env, "LUMINA_CUSTOMER_ID", None),
             enabled |-> B(enabled),
             batch_size |-> batch_size.v,
             batch_interval_ms |-> batch_interval_ms.v,
             flush_interval_ms |-> FlushIntervalOf(batch_interval_ms.v),
             max_retries |-> max_retries.v,
             timeout_ms |-> timeout_ms.v]
    IN IF batch_interval_ms.exc # NoExc THEN [exc |-> ValueError, v |-> None]
       ELSE IF batch_size.exc # NoExc THEN [exc |-> ValueError, v |-> None]
       ELSE IF max_retries.exc # NoExc THEN [exc |-> ValueError, v |-> None]
       ELSE IF timeout_ms.exc # NoExc THEN [exc |-> ValueError, v |-> None]
       ELSE [exc |-> NoExc,
             v |-> IF Truthy(overrides) THEN ApplyOverrides(cfg, overrides.v)
                   ELSE cfg]

----------------------------------------------------------------------------
(* Calls *)

\* a reference to the i-th Lumina constructed
Ref(i) == [t |-> "Lumina", v |-> i]

NoArgs ==
    [self |-> None, api |-> "", fn |-> "", metadata |-> None, tags |-> None,
     system |-> None, prompt |-> None]

NoLocal == [result |-> None, exc |-> NoExc, digest |-> NoDigest]
NoUow == [calls |-> 0, state |-> "idle", result |-> None, exc |-> NoExc]
NoRet == [kind |-> "none", v |-> None, exc |-> NoExc]

\* the kinds of unit of work: a plain function that does the work when called,
\* an async def function, and a plain lambda whose call returns the awaitable
\* of an async client (the usage shown in the class docstring)
FnKinds == {"function", "coroutinefunction", "awaitable_lambda"}

\* inspect.iscoroutinefunction(fn)
IsCoroutineFunction(fn) == fn = "coroutinefunction"

IsLlm(c) == args[c].api = "trace_llm"
OnAsyncPath(c) == IsCoroutineFunction(args[c].fn)

NoReply == [op |-> "", arg |-> None, v |-> None, exc |-> NoExc]

\* the environments the tracer is run in: the service name set or not
TracerEnvirons ==
    {[EmptyEnviron EXCEPT !["LUMINA_SERVICE_NAME"] = sn] :
        sn \in {None, S("my-app")}}

\* no traced call has been made
TracerIdle ==
    /\ pc = [c \in Calls |-> "idle"]
    /\ args = [c \in Calls |-> NoArgs]
    /\ spans = [c \in Calls |-> NewSpan]
    /\ local = [c \in Calls |-> NoLocal]
    /\ uow = [c \in Calls |-> NoUow]
    /\ ret = [c \in Calls |-> NoRet]
    /\ sink = <<>>

\* the state after lumina = Lumina(): one instance, its settings loaded from
\* the environment
Init ==
    /\ environ \in TracerEnvirons
    /\ config = <<load_sdk_config(environ, None).v>>
    /\ provider = <<"running">>
    /\ _instance = Ref(1)
    /\ reply = NoReply
    /\ estimate = <<>>
    /\ TracerIdle

\* self.config of the instance call c was made on
ConfigOf(c) == config[args[c].self.v]

\* TraceCall starting no span on an instance whose enabled flag is off
TraceCall_Gated(c, A) ==
    /\ pc[c] = "idle"
    /\ \E a \in A :
        /\ a.self.v \in 1..Len(config)
        /\ args' = [args EXCEPT ![c] = a]
        /\ IF Truthy(config[a.self.v].enabled)
           THEN /\ spans' = [spans EXCEPT ![c].created = @ + 1]
                /\ pc' = [pc EXCEPT ![c] = "common"]
           ELSE /\ spans' = spans
                /\ pc' = [pc EXCEPT ![c] = "invoke"]
    /\ UNCHANGED <<moduleVars, config, local, uow, ret, sink>>

\* Lumina.trace / Lumina.trace_llm called with arguments a: the path is
\* chosen by inspect.iscoroutinefunction(fn) and the span is started
\* (start_as_current_span, start = time.monotonic()).  On the async path the
\* body runs when the caller awaits the coroutine trace returns; the caller
\* is taken to await it at once.
TraceCall(c, A) ==
    /\ pc[c] = "idle"
    /\ \E a \in A :
        /\ a.self.v \in 1..Len(config)
        /\ args' = [args EXCEPT ![c] = a]
        /\ spans' = [spans EXCEPT ![c].created = @ + 1]
        /\ pc' = [pc EXCEPT ![c] = "common"]
    /\ UNCHANGED <<moduleVars, config, local, uow, ret, sink>>

\* the span a tracer-wide "current span" slot would hold: that of the call
\* started last among those in flight
CurrentSpanOf(c) ==
    LET inflight == {d \in Calls : pc[d] \notin {"idle", "done"}}
    IN CHOOSE d \in inflight : \A e \in inflight : e <= d

\* SetCommonAttrs writing to the tracer-wide current span, not its own
SetCommonAttrs_CurrentSpan(c) ==
    /\ pc[c] = "common"
    /\ LET eff == _set_common_attrs(ConfigOf(c), args[c].metadata, args[c].tags)
       IN /\ spans' = [spans EXCEPT ![CurrentSpanOf(c)] = ApplyWrites(@, eff.writes)]
          /\ local' = [local EXCEPT ![c].exc = eff.exc]
          /\ pc' = [pc EXCEPT ![c] =
                        IF eff.exc # NoExc THEN "raised"
                        ELSE IF IsLlm(c) THEN "pre" ELSE "invoke"]
    /\ UNCHANGED <<moduleVars, config, args, uow, ret, sink>>

\* self._set_common_attrs(span, metadata, tags) inside the try block
SetCommonAttrs(c) ==
    /\ pc[c] = "common"
    /\ LET eff == _set_common_attrs(ConfigOf(c), args[c].metadata, args[c].tags)
       IN /\ spans' = [spans EXCEPT ![c] = ApplyWrites(@, eff.writes)]
          /\ local' = [local EXCEPT ![c].exc = eff.exc]
          /\ pc' = [pc EXCEPT ![c] =
                        IF eff.exc # NoExc THEN "raised"
                        ELSE IF IsLlm(c) THEN "pre" ELSE "invoke"]
    /\ UNCHANGED <<moduleVars, config, args, uow, ret, sink>>

\* _inner: self._set_llm_pre_attrs(span, system, prompt)
PreAttrs(c) ==
    /\ pc[c] = "pre"
    /\ spans' = [spans EXCEPT ![c] =
                    ApplyWrites(@, _set_llm_pre_attrs(args[c].system,
                                                      args[c].prompt).writes)]
    /\ pc' = [pc EXCEPT ![c] = "invoke"]
    /\ UNCHANGED <<moduleVars, config, args, local, uow, ret, sink>>

AfterResult(c) == IF IsLlm(c) THEN "post" ELSE "finish"

\* what a unit of work can return: a provider response from R under
\* trace_llm, any value of the caller's under trace
TraceResults == {S("done")}
ResultsFor(c, R) == IF IsLlm(c) THEN R ELSE TraceResults

\* sync path, result = fn(span) / result = fn() with a plain function: the
\* work runs inside the call, and returns r or raises e
InvokeReturns(c, R) ==
    /\ pc[c] = "invoke" /\ ~OnAsyncPath(c) /\ args[c].fn = "function"
    /\ \E r \in ResultsFor(c, R) :
        /\ uow' = [uow EXCEPT ![c] = [calls |-> @.calls + 1, state |-> "returned",
                                      result |-> r, exc |-> NoExc]]
        /\ local' = [local EXCEPT ![c].result = r]
    /\ pc' = [pc EXCEPT ![c] = AfterResult(c)]
    /\ UNCHANGED <<moduleVars, config, args, spans, ret, sink>>

InvokeRaises(c, E) ==
    /\ pc[c] = "invoke" /\ ~OnAsyncPath(c) /\ args[c].fn = "function"
    /\ \E e \in E :
        /\ uow' = [uow EXCEPT ![c] = [calls |-> @.calls + 1, state |-> "raised",
                                      result |-> None, exc |-> e]]
        /\ local' = [local EXCEPT ![c].exc = e]
    /\ pc' = [pc EXCEPT ![c] = "raised"]
    /\ UNCHANGED <<moduleVars, config, args, spans, ret, sink>>

\* sync path, result = fn() with a lambda that returns an awaitable: the call
\* returns the coroutine object at once; the work has not completed
InvokeAwaitable(c) ==
    /\ pc[c] = "invoke" /\ ~OnAsyncPath(c) /\ args[c].fn = "awaitable_lambda"
    /\ uow' = [uow EXCEPT ![c] = [calls |-> @.calls + 1, state |-> "pending",
                                  result |-> None, exc |-> NoExc]]
    /\ local' = [local EXCEPT ![c].result = Coroutine]
    /\ pc' = [pc EXCEPT ![c] = AfterResult(c)]
    /\ UNCHANGED <<moduleVars, config, args, spans, ret, sink>>

\* async path, result = await fn(span) / await fn(): the tracer is suspended
InvokeAsync(c) ==
    /\ pc[c] = "invoke" /\ OnAsyncPath(c)
    /\ uow' = [uow EXCEPT ![c] = [calls |-> @.calls + 1, state |-> "pending",
                                  result |-> None, exc |-> NoExc]]
    /\ pc' = [pc EXCEPT ![c] = "awaiting"]
    /\ UNCHANGED <<moduleVars, config, args, spans, local, ret, sink>>

\* the awaited unit of work completes and the tracer resumes with its result
AwaitReturns(c, R) ==
    /\ pc[c] = "awaiting"
    /\ \E r \in ResultsFor(c, R) :
        /\ uow' = [uow EXCEPT ![c].state = "returned", ![c].result = r]
        /\ local' = [local EXCEPT ![c].result = r]
    /\ pc' = [pc EXCEPT ![c] = AfterResult(c)]
    /\ UNCHANGED <<moduleVars, config, args, spans, ret, sink>>

\* the awaited unit of work raises
AwaitRaises(c, E) ==
    /\ pc[c] = "awaiting"
    /\ \E e \in E :
        /\ uow' = [uow EXCEPT ![c].state = "raised", ![c].exc = e]
        /\ local' = [local EXCEPT ![c].exc = e]
    /\ pc' = [pc EXCEPT ![c] = "raised"]
    /\ UNCHANGED <<moduleVars, config, args, spans, ret, sink>>

\* the caller abandons the awaited operation: asyncio throws CancelledError
\* into the tracer at its await
Cancel(c) ==
    /\ pc[c] = "awaiting"
    /\ uow' = [uow EXCEPT ![c].state = "cancelled", ![c].exc = Cancelled]
    /\ local' = [local EXCEPT ![c].exc = Cancelled]
    /\ pc' = [pc EXCEPT ![c] = "raised"]
    /\ UNCHANGED <<moduleVars, config, args, spans, ret, sink>>

\* _inner: self._set_llm_post_attrs(span, result)
PostAttrs(c) ==
    /\ pc[c] = "post"
    /\ LET eff == _set_llm_post_attrs(local[c].result)
       IN /\ spans' = [spans EXCEPT ![c] = ApplyWrites(@, eff.writes)]
          /\ local' = [local EXCEPT ![c].exc = eff.exc, ![c].digest = eff.digest]
          /\ pc' = [pc EXCEPT ![c] = IF eff.exc # NoExc THEN "raised" ELSE "finish"]
    /\ UNCHANGED <<moduleVars, config, args, uow, ret, sink>>

\* Succeed with set_status(OK) called before the duration is written
Succeed_StatusFirst(c) ==
    /\ pc[c] = "finish"
    /\ \E d \in 0..MaxDur :
        spans' = [spans EXCEPT ![c] =
                     EndSpan(SetAttribute(SetStatus(@, "OK", ""), DURATION_MS, I(d)))]
    /\ ret' = [ret EXCEPT ![c] = [kind |-> "returned", v |-> local[c].result,
                                  exc |-> NoExc]]
    /\ sink' = Append(sink, c)
    /\ pc' = [pc EXCEPT ![c] = "done"]
    /\ UNCHANGED <<moduleVars, config, args, local, uow>>

\* the end of the try block: the duration attribute, set_status(OK),
\* return result; leaving the with block ends the span
Succeed(c) ==
    /\ pc[c] = "finish"
    /\ \E d \in 0..MaxDur :
        spans' = [spans EXCEPT ![c] =
                     EndSpan(SetStatus(SetAttribute(@, DURATION_MS, I(d)), "OK", ""))]
    /\ ret' = [ret EXCEPT ![c] = [kind |-> "returned", v |-> local[c].result,
                                  exc |-> NoExc]]
    /\ sink' = Append(sink, c)
    /\ pc' = [pc EXCEPT ![c] = "done"]
    /\ UNCHANGED <<moduleVars, config, args, local, uow>>

\* except Exception as exc: record_exception, set_status(ERROR, str(exc)),
\* raise; leaving the with block ends the span
ExceptHandler(c) ==
    /\ pc[c] = "raised" /\ local[c].exc.isException
    /\ spans' = [spans EXCEPT ![c] =
                    EndSpan(SetStatus(RecordException(@, local[c].exc),
                                      "ERROR", StrOfExc(local[c].exc)))]
    /\ ret' = [ret EXCEPT ![c] = [kind |-> "raised", v |-> None,
                                  exc |-> local[c].exc]]
    /\ sink' = Append(sink, c)
    /\ pc' = [pc EXCEPT ![c] = "done"]
    /\ UNCHANGED <<moduleVars, config, args, local, uow>>

\* an exception that is no Exception (CancelledError, KeyboardInterrupt) is
\* not caught by except Exception: it leaves the with block, which ends the
\* span, and propagates
Propagate(c) ==
    /\ pc[c] = "raised" /\ ~local[c].exc.isException
    /\ spans' = [spans EXCEPT ![c] = EndSpan(@)]
    /\ ret' = [ret EXCEPT ![c] = [kind |-> "raised", v |-> None,
                                  exc |-> local[c].exc]]
    /\ sink' = Append(sink, c)
    /\ pc' = [pc EXCEPT ![c] = "done"]
    /\ UNCHANGED <<moduleVars, config, args, local, uow>>

\* the caller awaits the coroutine that trace/trace_llm handed back from the
\* sync path: only now does the unit of work complete, or raise
CallerAwaitReturns(c, R) ==
    /\ pc[c] = "done" /\ ret[c].kind = "returned" /\ ret[c].v = Coroutine
    /\ uow[c].state = "pending"
    /\ \E r \in ResultsFor(c, R) : uow' = [uow EXCEPT ![c].state = "returned", ![c].result = r]
    /\ UNCHANGED <<moduleVars, config, pc, args, spans, local, ret, sink>>

CallerAwaitRaises(c, E) ==
    /\ pc[c] = "done" /\ ret[c].kind = "returned" /\ ret[c].v = Coroutine
    /\ uow[c].state = "pending"
    /\ \E e \in E : uow' = [uow EXCEPT ![c].state = "raised", ![c].exc = e]
    /\ UNCHANGED <<moduleVars, config, pc, args, spans, local, ret, sink>>

----------------------------------------------------------------------------
(* Inputs *)

Message(content) == Obj([content |-> content])
Choice(message) == Obj([message |-> message])
Block(type, text) == Obj([type |-> S(type), text |-> text])
Usage(p, c, t, i, o) ==
    Obj([prompt_tokens |-> p, completion_tokens |-> c, total_tokens |-> t,
         input_tokens |-> i, output_tokens |-> o])
Response(model, id, choices, content, usage) ==
    Obj([model |-> model, id |-> id, choices |-> choices, content |-> content,
         usage |-> usage])

\* an OpenAI chat completion, an Anthropic message, an object with neither
\* choices nor content, and a response whose usage counts cannot be added
OpenAiResponse ==
    Obj([model |-> S("gpt-4"), id |-> S("chatcmpl-1"),
         choices |-> PyList(<<Choice(Message(S("Paris")))>>),
         usage |-> Obj([prompt_tokens |-> I(10), completion_tokens |-> I(5),
                        total_tokens |-> I(15)])])
AnthropicResponse ==
    Obj([model |-> S("claude-3-haiku"), id |-> S("msg_1"),
         content |-> PyList(<<Block("text", S("Bonjour"))>>),
         usage |-> Obj([input_tokens |-> I(8), output_tokens |-> I(3)])])
UnrecognizedResponse == Obj([data |-> S("x")])
BadUsageResponse ==
    Obj([model |-> S("gpt-4"),
         choices |-> PyList(<<Choice(Message(S("Paris")))>>),
         usage |-> Obj([prompt_tokens |-> S("10"), completion_tokens |-> I(5)])])

SampleResponses ==
    {OpenAiResponse, AnthropicResponse, UnrecognizedResponse, BadUsageResponse}

\* failures of a unit of work: an Exception, and one that is no Exception
UowFailures == {RateLimited, NonExceptionFailure}

\* metadata: none, serialisable, and a dict whose second value json.dumps
\* rejects; the other optional arguments are given together or not at all
GoodMetadata == PyDict(<< <<"max_tokens", I(150)>> >>)
BadMetadata == PyDict(<< <<"max_tokens", I(150)>>, <<"client", Opaque>> >>)

PlainArgs(api, fn) ==
    [self |-> Ref(1), api |-> api, fn |-> fn, metadata |-> None, tags |-> None,
     system |-> None, prompt |-> None]

FullArgs(api, fn, metadata) ==
    [self |-> Ref(1), api |-> api, fn |-> fn, metadata |-> metadata,
     tags |-> PyList(<<S("chat"), S("example")>>),
     system |-> IF api = "trace_llm" THEN S("openai") ELSE None,
     prompt |-> IF api = "trace_llm" THEN S("hi") ELSE None]

TraceArgs ==
    UNION {{PlainArgs(api, fn), FullArgs(api, fn, GoodMetadata),
            FullArgs(api, fn, BadMetadata)} :
              <<api, fn>> \in {"trace", "trace_llm"} \X FnKinds}

Step(c) ==
    \/ TraceCall(c, TraceArgs)
    \/ SetCommonAttrs(c)
    \/ PreAttrs(c)
    \/ InvokeReturns(c, SampleResponses)
    \/ InvokeRaises(c, UowFailures)
    \/ InvokeAwaitable(c)
    \/ InvokeAsync(c)
    \/ AwaitReturns(c, SampleResponses)
    \/ AwaitRaises(c, UowFailures)
    \/ Cancel(c)
    \/ PostAttrs(c)
    \/ Succeed(c)
    \/ ExceptHandler(c)
    \/ Propagate(c)
    \/ CallerAwaitReturns(c, SampleResponses)
    \/ CallerAwaitRaises(c, UowFailures)

Next == \E c \in Calls : Step(c)

Spec == Init /\ [][Next]_vars

\* calls in flight together, each with one of a few arguments: trace_llm of
\* an async function with every optional argument, trace of a plain
\* function, with nothing else or with metadata json.dumps rejects, and
\* trace_llm of a lambda that returns an awaitable
ConcurrentArgs ==
    {FullArgs("trace_llm", "coroutinefunction", GoodMetadata),
     PlainArgs("trace", "function"),
     FullArgs("trace", "function", BadMetadata),
     PlainArgs("trace_llm", "awaitable_lambda")}

ConcurrentResponses == {OpenAiResponse, BadUsageResponse}

NextConcurrent ==
    \E c \in Calls :
        \/ TraceCall(c, ConcurrentArgs)
        \/ SetCommonAttrs(c)
        \/ PreAttrs(c)
        \/ InvokeReturns(c, ConcurrentResponses)
        \/ InvokeRaises(c, UowFailures)
        \/ InvokeAwaitable(c)
        \/ InvokeAsync(c)
        \/ AwaitReturns(c, ConcurrentResponses)
        \/ AwaitRaises(c, UowFailures)
        \/ Cancel(c)
        \/ PostAttrs(c)
        \/ Succeed(c)
        \/ ExceptHandler(c)
        \/ Propagate(c)
        \/ CallerAwaitReturns(c, ConcurrentResponses)
        \/ CallerAwaitRaises(c, UowFailures)

SpecConcurrent == Init /\ [][NextConcurrent]_vars

\* one traced call on its own
NextCall == Step(1)

SpecCall == Init /\ [][NextCall]_vars

----------------------------------------------------------------------------
(* The Response Normalizer over the shapes a response can take: trace_llm   *)
(* with a plain function and no optional arguments, the unit of work       *)
(* returning any response of NormalizerResponses.                          *)

\* a token field: absent/null, a count, or a value that is not a number
TokVals == {None, S("10")} \cup {I(n) : n \in 0..MaxTok}

Usages ==
    {None} \cup {Usage(p, c, t, i, o) : p \in TokVals, c \in TokVals,
                                       t \in TokVals, i \in TokVals, o \in TokVals}

Models == {None, S(""), S("gpt-4-turbo"), S("my-model")}

Messages == {None, Message(None), Message(S("")), Message(S("Paris"))}

ChoicesVals ==
    {None, PyList(<<>>)}
    \cup {PyList(<<Choice(m)>>) : m \in Messages}
    \cup {PyList(<<Choice(Message(S("Paris"))), Choice(Message(S("Lyon")))>>),
          PyTuple(<<Choice(Message(S("Paris")))>>)}

ContentVals ==
    {None, S(""), S("Salut"), PyList(<<>>),
     PyList(<<Block("text", S("Bonjour"))>>),
     PyList(<<Block("text", None)>>),
     PyList(<<Block("tool_use", S("lookup"))>>),
     PyList(<<Block("text", S("Bonjour")), Block("text", S("Monde"))>>),
     PyTuple(<<Block("text", S("Bonjour"))>>)}

CompletionResponses ==
    {Response(S("gpt-4"), id, ch, co, u) :
        id \in {None, S("resp_1")}, ch \in ChoicesVals, co \in ContentVals,
        u \in {None, Usage(I(1), I(1), None, None, None),
                Usage(S("10"), I(1), None, None, None)}}

UsageResponses ==
    {Response(m, S("resp_1"), PyList(<<Choice(Message(S("Paris")))>>), None, u) :
        m \in Models, u \in Usages}

NormalizerResponses == CompletionResponses \cup UsageResponses

NormalizerArgs == {PlainArgs("trace_llm", "function")}

NextNormalizer ==
    \/ TraceCall(1, NormalizerArgs)
    \/ SetCommonAttrs(1)
    \/ PreAttrs(1)
    \/ InvokeReturns(1, NormalizerResponses)
    \/ PostAttrs(1)
    \/ Succeed(1)
    \/ ExceptHandler(1)

SpecNormalizer == Init /\ [][NextNormalizer]_vars

----------------------------------------------------------------------------
(* The Cost Estimator called on its own *)

\* model ids: the ids of the two examples, two more keys of the table, an
\* id no key matches and the empty id
CostModels ==
    {"gpt-4", "claude-sonnet-4-5", "gpt-4-turbo", "claude-3-haiku", "my-model", ""}

\* <<prompt_tokens, completion_tokens>>: counts of 0..MaxTok, and the 10 and
\* 5 of an OpenAI chat completion
CostTokens == ((0..MaxTok) \X (0..MaxTok)) \cup {<<10, 5>>}

\* cost = _calculate_cost(model, prompt_tokens, completion_tokens); estimate
\* keeps the last two calls: their arguments, the model_key found and the
\* value returned
CalculateCost(M, T) ==
    /\ \E m \in M, t \in T :
        estimate' =
            Append(IF Len(estimate) = 2 THEN Tail(estimate) ELSE estimate,
                   [model |-> m, prompt_tokens |-> t[1], completion_tokens |-> t[2],
                    model_key |-> ModelKeyOf(m),
                    cost |-> _calculate_cost(m, I(t[1]), I(t[2])).v])
    /\ UNCHANGED <<environ, config, provider, _instance, reply, tracerVars>>

NextCost == CalculateCost(CostModels, CostTokens)

SpecCost == Init /\ [][NextCost]_vars

----------------------------------------------------------------------------
(* The module-level API: Lumina(config), init_lumina, get_lumina, and the  *)
(* instance methods is_enabled and shutdown                                *)

\* the module as imported: _instance = None, nothing constructed
InitModule(E) ==
    /\ environ \in E
    /\ config = <<>>
    /\ provider = <<>>
    /\ _instance = None
    /\ reply = NoReply
    /\ estimate = <<>>
    /\ TracerIdle

\* _instance after __init__ of the instance self, constructed when the module
\* held current
InstanceAfterInit_KeepFirst(current, self) ==
    IF current = None THEN self ELSE current

\* global _instance ... _instance = self
InstanceAfterInit(current, self) == self

\* Lumina.__init__(config) with config = overrides, called as api: the
\* settings are loaded, the provider is created and _instance is assigned;
\* a ValueError of load_sdk_config leaves the module as it was
Construct(api, O) ==
    /\ Len(config) < MaxInstances
    /\ \E overrides \in O :
        LET loaded == load_sdk_config(environ, overrides)
            self == Ref(Len(config) + 1)
        IN IF loaded.exc # NoExc
           THEN /\ reply' = [op |-> api, arg |-> overrides, v |-> None,
                             exc |-> loaded.exc]
                /\ UNCHANGED <<config, provider, _instance>>
           ELSE /\ config' = Append(config, loaded.v)
                /\ provider' = Append(provider, "running")
                /\ _instance' = InstanceAfterInit(_instance, self)
                /\ reply' = [op |-> api, arg |-> overrides, v |-> self,
                             exc |-> NoExc]
    /\ UNCHANGED <<environ, estimate, tracerVars>>

\* Lumina(overrides)
NewLumina(O) == Construct("Lumina", O)

\* init_lumina(overrides): return Lumina(config)
init_lumina(O) == Construct("init_lumina", O)

\* get_lumina(): return _instance
get_lumina ==
    /\ reply' = [op |-> "get_lumina", arg |-> None, v |-> _instance,
                 exc |-> NoExc]
    /\ UNCHANGED <<environ, config, provider, _instance, estimate, tracerVars>>

\* Lumina.is_enabled(): return self.config.enabled
is_enabled ==
    /\ \E i \in 1..Len(config) :
        reply' = [op |-> "is_enabled", arg |-> Ref(i), v |-> config[i].enabled,
                  exc |-> NoExc]
    /\ UNCHANGED <<environ, config, provider, _instance, estimate, tracerVars>>

\* Lumina.shutdown(): self._provider.shutdown()
shutdown ==
    /\ \E i \in 1..Len(config) :
        /\ provider' = [provider EXCEPT ![i] = "shutdown"]
        /\ reply' = [op |-> "shutdown", arg |-> Ref(i), v |-> None, exc |-> NoExc]
    /\ UNCHANGED <<environ, config, _instance, estimate, tracerVars>>

\* environments: the enabled flag, the batch interval and the service name
\* unset, set, and set to what int() rejects
ConfigEnvirons ==
    {[EmptyEnviron EXCEPT !["LUMINA_ENABLED"] = e,
                          !["LUMINA_BATCH_INTERVAL_MS"] = b,
                          !["LUMINA_SERVICE_NAME"] = sn] :
        e \in {None, S("False"), S("0"), S("off")},
        b \in {None, S("250"), S("5s")},
        sn \in {None, S("my-app")}}

\* the dict of the examples
ExampleOverrides ==
    PyDict(<< <<"endpoint", S("http://localhost:8080/v1/traces")>>,
              <<"service_name", S("openai-basic-example")>>,
              <<"environment", S("live")>> >>)

\* overrides: none, empty, the examples' dict, one interval without the
\* other, and a dict of a value, a null and a key SdkConfig does not have
OverrideDicts ==
    {None, PyDict(<<>>), ExampleOverrides,
     PyDict(<< <<"batch_interval_ms", I(1000)>> >>),
     PyDict(<< <<"flush_interval_ms", I(1000)>> >>),
     PyDict(<< <<"enabled", B(FALSE)>>, <<"service_name", None>>,
               <<"batchIntervalMs", I(250)>> >>)}

NextConfig ==
    \/ NewLumina(OverrideDicts)
    \/ init_lumina(OverrideDicts)
    \/ get_lumina
    \/ is_enabled
    \/ shutdown

SpecConfig == InitModule(ConfigEnvirons) /\ [][NextConfig]_vars

----------------------------------------------------------------------------
(* Two instances that differ in the enabled flag only, and calls on both   *)

EnabledOff == PyDict(<< <<"enabled", B(FALSE)>> >>)

\* the state after a = Lumina(); b = Lumina({"enabled": False})
InitEnabled ==
    /\ environ \in TracerEnvirons
    /\ config = <<load_sdk_config(environ, None).v,
                  load_sdk_config(environ, EnabledOff).v>>
    /\ provider = <<"running", "running">>
    /\ _instance = Ref(2)
    /\ reply = NoReply
    /\ estimate = <<>>
    /\ TracerIdle

\* trace_llm of a plain function with every optional argument and trace of
\* an async function with none, on either instance
EnabledArgs ==
    {[a EXCEPT !.self = Ref(i)] :
        a \in {FullArgs("trace_llm", "function", GoodMetadata),
               PlainArgs("trace", "coroutinefunction")},
        i \in 1..2}

NextEnabled ==
    \/ \E c \in Calls :
        \/ TraceCall(c, EnabledArgs)
        \/ SetCommonAttrs(c)
        \/ PreAttrs(c)
        \/ InvokeReturns(c, {OpenAiResponse})
        \/ InvokeRaises(c, {RateLimited})
        \/ InvokeAsync(c)
        \/ AwaitReturns(c, {OpenAiResponse})
        \/ AwaitRaises(c, {RateLimited})
        \/ PostAttrs(c)
        \/ Succeed(c)
        \/ ExceptHandler(c)
    \/ is_enabled

SpecEnabled == InitEnabled /\ [][NextEnabled]_vars

----------------------------------------------------------------------------
(* Properties *)

Done(c) == pc[c] = "done"

\* the unit of work ran inside the tracer (a plain function, or an async
\* function the tracer awaited) and has settled
RanInTracer(c) ==
    /\ args[c].fn \in {"function", "coroutinefunction"}
    /\ uow[c].calls > 0

Occurrences(seq, x) == Cardinality({i \in 1..Len(seq) : seq[i] = x})

\* C1: every call of trace/trace_llm, on either path and whether the unit of
\* work returns or raises, creates exactly one span, records exactly one
\* terminal status (OK or ERROR) on it and ends it exactly once (one hand-over
\* to the sink) by the time the call returns or its failure propagates.
C1_OneSpanOneStatusOneEnd ==
    \A c \in Calls :
        Done(c) =>
            /\ spans[c].created = 1
            /\ spans[c].statusSets = 1
            /\ spans[c].status \in {"OK", "ERROR"}
            /\ spans[c].ended = 1
            /\ Occurrences(sink, c) = 1

\* C2: when the unit of work raises a failure, the failure is recorded on the
\* span, the status is ERROR with the failure's message, and the same failure
\* reaches the caller; no result is returned and the status is never OK.
C2_FailureRecordedAndReraised ==
    \A c \in Calls :
        (Done(c) /\ RanInTracer(c) /\ uow[c].state = "raised") =>
            /\ \E i \in 1..Len(spans[c].events) : spans[c].events[i] = uow[c].exc
            /\ spans[c].status = "ERROR"
            /\ spans[c].description = uow[c].exc.msg
            /\ ret[c].kind = "raised"
            /\ ret[c].exc = uow[c].exc

\* C3: in trace_llm, whenever the unit of work returns normally the caller
\* receives that result and the span ends with status OK, even if the
\* post-call attribute extraction fails.
C3_ExtractionFailureContained ==
    \A c \in Calls :
        (Done(c) /\ IsLlm(c) /\ RanInTracer(c) /\ uow[c].state = "returned") =>
            /\ ret[c].kind = "returned"
            /\ ret[c].v = uow[c].result
            /\ spans[c].status = "OK"

\* C4: tracing is transparent to control flow: the unit of work is invoked
\* exactly once, its result is handed back unchanged, every failure the
\* caller sees was raised by the unit of work, and the tracer's pre-call
\* attribute work never keeps the unit of work from being invoked.
C4_Transparent ==
    \A c \in Calls :
        Done(c) =>
            /\ uow[c].calls = 1
            /\ ret[c].kind = "returned" => ret[c].v = local[c].result
            /\ ret[c].kind = "raised" => ret[c].exc.by = "fn"

Asynchronous(c) == args[c].fn \in {"coroutinefunction", "awaitable_lambda"}
Completed(c) == uow[c].state \in {"returned", "raised", "cancelled"}

\* C5: for every asynchronous unit of work (an async function, or a plain
\* lambda whose call returns an awaitable) the post-call extraction, the
\* duration attribute, the terminal status and the end of the span happen
\* only after the unit of work has completed.
C5_AsyncFinishedBeforeSpanCloses ==
    \A c \in Calls :
        (Asynchronous(c) /\ uow[c].calls > 0 /\ ~Completed(c)) =>
            /\ ~local[c].digest.done
            /\ ~HasAttr(spans[c], DURATION_MS)
            /\ spans[c].status = "UNSET"
            /\ spans[c].ended = 0

\* C6: on the async path a cancellation of the awaited unit of work goes
\* through the failure path: it is recorded on the span, the status is ERROR,
\* the span is ended and the cancellation propagates to the caller.
C6_CancellationRecorded ==
    \A c \in Calls :
        (Done(c) /\ uow[c].state = "cancelled") =>
            /\ \E i \in 1..Len(spans[c].events) : spans[c].events[i] = Cancelled
            /\ spans[c].status = "ERROR"
            /\ spans[c].ended = 1
            /\ ret[c].kind = "raised" /\ ret[c].exc = Cancelled

\* the response the normalizer of call c was given, and its usage object
ResultOf(c) == local[c].result
UsageOf(c) == GetAttr(ResultOf(c), "usage", None)
Normalized(c) == local[c].digest.done

\* null or anything that is no text counts as the empty text
TextOrEmpty(x) == IF x.t = "str" THEN x ELSE S("")

NonEmptyList(x) == x.t = "list" /\ Len(x.v) > 0

\* every field of the usage object is null or a number
NumericUsage(u) ==
    u.t = "object" => \A f \in DOMAIN u.v : u.v[f].t \in {"None", "int"}

\* the completion text the four shapes (a)-(d) give, tried in that order
ExpectedCompletion(r) ==
    LET ch == GetAttr(r, "choices", None)
        co == GetAttr(r, "content", None)
    IN IF NonEmptyList(ch)
       THEN TextOrEmpty(GetAttr(GetAttr(ch.v[1], "message", None), "content", None))
       ELSE IF NonEmptyList(co) /\ GetAttr(co.v[1], "type", None) = S("text")
       THEN TextOrEmpty(GetAttr(co.v[1], "text", None))
       ELSE IF co.t = "str" THEN co
       ELSE S("")

FirstNonNull(a, b) == IF a # None THEN a ELSE IF b # None THEN b ELSE I(0)

\* C8: the prompt token count is prompt_tokens when that field is non-null,
\* also when it is 0, and otherwise input_tokens; the completion token count
\* likewise from completion_tokens, then output_tokens; 0 stands in only when
\* both fields are null or absent.
C8_FirstNonNullTokens ==
    \A c \in Calls :
        (Normalized(c) /\ local[c].digest.hasUsage) =>
            LET u == UsageOf(c)
            IN /\ local[c].digest.prompt_tokens =
                      FirstNonNull(GetAttr(u, "prompt_tokens", None),
                                   GetAttr(u, "input_tokens", None))
               /\ local[c].digest.completion_tokens =
                      FirstNonNull(GetAttr(u, "completion_tokens", None),
                                   GetAttr(u, "output_tokens", None))

\* C9: the total token count is the provider's total_tokens whenever one is
\* reported, whatever its value, and prompt + completion only when none is
\* reported.
C9_ReportedTotalWins ==
    \A c \in Calls :
        (Normalized(c) /\ local[c].digest.hasUsage /\ NumericUsage(UsageOf(c))) =>
            LET reported == GetAttr(UsageOf(c), "total_tokens", None)
            IN local[c].digest.total_tokens =
                   IF reported # None THEN reported
                   ELSE I(local[c].digest.prompt_tokens.v
                          + local[c].digest.completion_tokens.v)

UsageKeys ==
    {LLM_USAGE_PROMPT_TOKENS, LLM_USAGE_COMPLETION_TOKENS,
     LLM_USAGE_TOTAL_TOKENS, LUMINA_COST_USD}

\* the attribute under key is on the span exactly when value is above zero,
\* and then holds value
PresentIffPositive(span, key, value) ==
    /\ HasAttr(span, key) <=> value.v > 0
    /\ HasAttr(span, key) => span.attrs[key] = value

\* C10: no zero-valued usage or cost attribute is ever written.  Without
\* usage data the prompt, completion and total token attributes and the cost
\* attribute are all absent; with usage data each of the four is present
\* exactly when its value is above zero, and the cost attribute is present
\* only if a prompt or completion token was counted.
C10_NoZeroUsageAttrs ==
    \A c \in Calls :
        /\ \A k \in UsageKeys :
               (HasAttr(spans[c], k) /\ spans[c].attrs[k].t \in {"int", "float"}) =>
                   spans[c].attrs[k].v > 0
        /\ (Normalized(c) /\ UsageOf(c) = None) =>
               \A k \in UsageKeys : ~HasAttr(spans[c], k)
        /\ ~Normalized(c) => \A k \in UsageKeys : ~HasAttr(spans[c], k)
        /\ (Normalized(c) /\ UsageOf(c) # None /\ NumericUsage(UsageOf(c))) =>
               LET d == local[c].digest
               IN /\ PresentIffPositive(spans[c], LLM_USAGE_PROMPT_TOKENS,
                                        d.prompt_tokens)
                  /\ PresentIffPositive(spans[c], LLM_USAGE_COMPLETION_TOKENS,
                                        d.completion_tokens)
                  /\ PresentIffPositive(spans[c], LLM_USAGE_TOTAL_TOKENS,
                                        d.total_tokens)
                  /\ PresentIffPositive(spans[c], LUMINA_COST_USD, d.cost)
                  /\ HasAttr(spans[c], LUMINA_COST_USD) =>
                         d.prompt_tokens.v > 0 \/ d.completion_tokens.v > 0

\* a usage object that counts prompt tokens only: the prompt, total and cost
\* attributes are written and the completion attribute is not
C10_Witness ==
    \E c \in Calls :
        /\ Done(c) /\ Normalized(c) /\ UsageOf(c) # None
        /\ local[c].digest.completion_tokens = I(0)
        /\ HasAttr(spans[c], LLM_USAGE_PROMPT_TOKENS)
        /\ ~HasAttr(spans[c], LLM_USAGE_COMPLETION_TOKENS)
        /\ HasAttr(spans[c], LLM_USAGE_TOTAL_TOKENS)
        /\ HasAttr(spans[c], LUMINA_COST_USD)

\* the price pair the lookup rule gives: the first entry, in table order,
\* whose key is a substring of the model id, else (1.0, 2.0) per 1M tokens
FirstMatches(model, i) ==
    /\ IsSubstring(_PRICING[i].key, model)
    /\ \A j \in 1..(i - 1) : ~IsSubstring(_PRICING[j].key, model)

ExpectedPrice(model) ==
    IF \E i \in 1..Len(_PRICING) : FirstMatches(model, i)
    THEN LET i == CHOOSE k \in 1..Len(_PRICING) : FirstMatches(model, k)
         IN <<_PRICING[i].input, _PRICING[i].output>>
    ELSE <<100, 200>>

\* prompt_tokens/1e6*input_price + completion_tokens/1e6*output_price
ExpectedCost(e) ==
    Usd(e.prompt_tokens * ExpectedPrice(e.model)[1]
        + e.completion_tokens * ExpectedPrice(e.model)[2])

SameInputs(e, f) ==
    /\ e.model = f.model
    /\ e.prompt_tokens = f.prompt_tokens
    /\ e.completion_tokens = f.completion_tokens

\* every estimate follows the lookup rule and the formula, two estimates of
\* the same inputs agree, and gpt-4 with 10 and 5 tokens costs example
CostRule(example) ==
    /\ \A n \in 1..Len(estimate) :
        /\ estimate[n].cost = ExpectedCost(estimate[n])
        /\ (/\ estimate[n].model = "gpt-4"
            /\ estimate[n].prompt_tokens = 10
            /\ estimate[n].completion_tokens = 5) => estimate[n].cost = example
    /\ \A n, m \in 1..Len(estimate) :
        SameInputs(estimate[n], estimate[m]) => estimate[n].cost = estimate[m].cost

\* C11 as stated: the cost estimator prices with the first table entry, in
\* definition order, whose key is a substring of the model id, or with the
\* default (1.0, 2.0) when none is; it returns prompt_tokens/1e6*input_price
\* + completion_tokens/1e6*output_price; two calls with the same inputs give
\* the same result; and gpt-4 with 10 and 5 tokens costs 0.00045 USD.
C11_CostRuleAsStated == CostRule(Usd(45000))

\* C11 as amended: the same rule, formula and repeatability, and gpt-4 with
\* 10 and 5 tokens costs 10/1e6*30 + 5/1e6*60 = 0.0006 USD.
C11_CostRule == CostRule(Usd(60000))

\* gpt-4 with 10 and 5 tokens has been priced twice in a row
C11_Witness ==
    /\ Len(estimate) = 2
    /\ SameInputs(estimate[1], estimate[2])
    /\ estimate[2].model = "gpt-4"
    /\ estimate[2].prompt_tokens = 10
    /\ estimate[2].completion_tokens = 5
    /\ estimate[2].cost = Usd(60000)

\* C15: the pricing table lists more specific keys before more general ones:
\* a model id equal to a key of the table has no earlier key as a substring,
\* and the entry selected for it, and used for its price, is that key's own.
C15_SpecificKeysFirst ==
    \A n \in 1..Len(estimate) :
        \A i \in 1..Len(_PRICING) :
            estimate[n].model = _PRICING[i].key =>
                /\ \A j \in 1..(i - 1) :
                       ~IsSubstring(_PRICING[j].key, _PRICING[i].key)
                /\ estimate[n].model_key = S(_PRICING[i].key)
                /\ estimate[n].cost =
                       Usd(estimate[n].prompt_tokens * _PRICING[i].input
                           + estimate[n].completion_tokens * _PRICING[i].output)

Constructed == reply.op \in {"Lumina", "init_lumina"} /\ reply.exc = NoExc

\* the value overrides gives key: None when overrides is None or has no such
\* key
OverrideOf(overrides, key) ==
    IF overrides.t = "dict" /\ \E n \in 1..Len(overrides.v) : overrides.v[n][1] = key
    THEN overrides.v[CHOOSE n \in 1..Len(overrides.v) : overrides.v[n][1] = key][2]
    ELSE None

\* C12: in the settings record load_sdk_config builds, every setting equals
\* the caller's override when an override for that setting is given and is
\* not null, and otherwise the environment-sourced value (or its default); a
\* null override and an override for an unknown key change nothing.
C12_OverridesApplied ==
    Constructed =>
        LET cfg == config[reply.v.v]
            sourced == load_sdk_config(environ, None).v
        IN /\ DOMAIN cfg = SdkConfigFields
           /\ \A f \in SdkConfigFields :
                  cfg[f] = IF OverrideOf(reply.arg, f) # None
                           THEN OverrideOf(reply.arg, f)
                           ELSE sourced[f]

\* constructed with a value, a null and an unknown key while the environment
\* names the service: enabled is overridden, the service name is kept
C12_Witness ==
    /\ Constructed
    /\ OverrideOf(reply.arg, "enabled") = B(FALSE)
    /\ OverrideOf(reply.arg, "batchIntervalMs") # None
    /\ environ["LUMINA_ENABLED"] = None
    /\ config[reply.v.v].enabled = B(FALSE)
    /\ config[reply.v.v].service_name = S("my-app")

\* C16: in every settings record load_sdk_config returns, whatever the
\* environment and the overrides, the flush interval equals the batch
\* interval.
C16_FlushMirrorsBatch ==
    Constructed =>
        config[reply.v.v].flush_interval_ms = config[reply.v.v].batch_interval_ms

Latest == IF Len(config) = 0 THEN None ELSE Ref(Len(config))

\* C13: after any sequence of constructions and init_lumina calls, the
\* module holds, and get_lumina returns, the most recently constructed
\* instance, and None only if none has been constructed; constructing an
\* instance shuts no earlier instance down.
C13_LatestInstance ==
    /\ [](/\ _instance = Latest
          /\ reply.op = "get_lumina" => reply.v = Latest)
    /\ [][\A i \in 1..Len(provider) :
              provider'[i] # provider[i] =>
                  reply'.op = "shutdown" /\ reply'.arg = Ref(i)]_vars

\* get_lumina after a second construction returns the second instance, and
\* the first is still running
C13_Witness ==
    /\ Len(config) = 2
    /\ reply.op = "get_lumina" /\ reply.v = Ref(2)
    /\ provider[1] = "running"

\* C19: the duration attribute is on a span exactly when the span's status
\* is OK; a call that raises, from the unit of work or from a tracer step
\* before the status is set, ends its span with status ERROR and without a
\* duration attribute.
C19_DurationIffOk ==
    \A c \in Calls :
        /\ HasAttr(spans[c], DURATION_MS) <=> spans[c].status = "OK"
        /\ (Done(c) /\ ret[c].kind = "raised") =>
               /\ spans[c].status = "ERROR"
               /\ ~HasAttr(spans[c], DURATION_MS)

\* the keys of the metadata dict of call c
MetadataKeys(c) ==
    IF args[c].metadata.t = "dict"
    THEN {args[c].metadata.v[n][1] : n \in 1..Len(args[c].metadata.v)}
    ELSE {}

\* the place of a span operation of call c in the order of the claim:
\* metadata entries, tags, environment, service name; system, prompt; the
\* response attributes, the usage attributes, the cost; the duration; the
\* status (with the exception recorded just before it); the end of the span
Rank(c, e) ==
    CASE e \in MetadataKeys(c) -> 10
      [] e = LUMINA_TAGS -> 11
      [] e = LUMINA_ENVIRONMENT -> 12
      [] e = LUMINA_SERVICE_NAME -> 13
      [] e \in {LLM_SYSTEM, LLM_PROMPT} -> 20
      [] e \in {LLM_RESPONSE_MODEL, LLM_RESPONSE_ID, LLM_COMPLETION} -> 40
      [] e \in {LLM_USAGE_PROMPT_TOKENS, LLM_USAGE_COMPLETION_TOKENS,
                LLM_USAGE_TOTAL_TOKENS} -> 41
      [] e = LUMINA_COST_USD -> 42
      [] e = DURATION_MS -> 50
      [] e = "<record_exception>" -> 60
      [] e = "<set_status>" -> 61
      [] e = "<end>" -> 70

IsPreCall(c, e) == Rank(c, e) <= 20
IsPostCall(c, e) == Rank(c, e) \in {40, 41, 42}
IsAttribute(c, e) == Rank(c, e) <= 50

\* what the step has appended to the log of the span of call c
Appended(c) == SubSeq(spans'[c].log, Len(spans[c].log) + 1, Len(spans'[c].log))

\* C14: within a single traced call the span writes happen in the order
\* common attributes (metadata entries, tags, environment, service name),
\* LLM pre-call attributes, invocation of the unit of work, post-call
\* response/usage/cost attributes, duration, status: no attribute is written
\* after the status is set, the common and pre-call attributes are written
\* before the unit of work is invoked, and the post-call attributes and the
\* duration only after it has been invoked, the post-call ones only once it
\* has returned.
C14_WriteOrder ==
    /\ [](\A c \in Calls :
            \A i, j \in 1..Len(spans[c].log) :
                i < j => /\ Rank(c, spans[c].log[i]) <= Rank(c, spans[c].log[j])
                         /\ spans[c].log[i] = "<set_status>" =>
                                ~IsAttribute(c, spans[c].log[j]))
    /\ [][\A c \in Calls :
            \A n \in 1..Len(Appended(c)) :
                LET e == Appended(c)[n]
                IN /\ IsPreCall(c, e) => uow[c].calls = 0 /\ uow'[c].calls = 0
                   /\ IsPostCall(c, e) =>
                          /\ args[c].fn # "awaitable_lambda"
                          /\ uow[c].calls = 1 /\ uow[c].state = "returned"
                   /\ e = DURATION_MS => uow[c].calls = 1]_vars

\* a trace_llm call with metadata, tags, system and prompt has ended OK with
\* attributes of every group written, the duration among them
C14_Witness ==
    \E c \in Calls :
        /\ Done(c) /\ IsLlm(c) /\ spans[c].status = "OK"
        /\ MetadataKeys(c) # {}
        /\ HasAttr(spans[c], LUMINA_TAGS) /\ HasAttr(spans[c], LLM_PROMPT)
        /\ HasAttr(spans[c], LLM_COMPLETION)
        /\ HasAttr(spans[c], LLM_USAGE_TOTAL_TOKENS)
        /\ HasAttr(spans[c], LUMINA_COST_USD)
        /\ HasAttr(spans[c], DURATION_MS)
        /\ Len(spans[c].log) > 10

\* calls c and d were given the same arguments and the same unit of work,
\* which did the same in both, on instances whose settings differ in the
\* enabled flag only, and the clock measured the same
SameButEnabled(c, d) ==
    /\ [args[c] EXCEPT !.self = None] = [args[d] EXCEPT !.self = None]
    /\ [ConfigOf(c) EXCEPT !.enabled = None] = [ConfigOf(d) EXCEPT !.enabled = None]
    /\ ConfigOf(c).enabled = B(TRUE) /\ ConfigOf(d).enabled = B(FALSE)
    /\ (uow[c].calls > 0 /\ uow[d].calls > 0) =>
           /\ uow[c].state = uow[d].state
           /\ uow[c].result = uow[d].result
           /\ uow[c].exc = uow[d].exc
    /\ (HasAttr(spans[c], DURATION_MS) /\ HasAttr(spans[d], DURATION_MS)) =>
           spans[c].attrs[DURATION_MS] = spans[d].attrs[DURATION_MS]

\* C18: the enabled setting has no effect on tracing: a call on an instance
\* with enabled off invokes the unit of work, creates, annotates and ends a
\* span, and returns or raises exactly as the same call on an instance with
\* enabled on; the flag is only reported by is_enabled.
C18_EnabledIgnored ==
    /\ \A d \in Calls :
        (Done(d) /\ ConfigOf(d).enabled = B(FALSE)) =>
            /\ uow[d].calls = 1
            /\ spans[d].created = 1 /\ spans[d].ended = 1
            /\ HasAttr(spans[d], LUMINA_ENVIRONMENT)
            /\ spans[d].status \in {"OK", "ERROR"}
            /\ ret[d].kind = uow[d].state
    /\ \A c, d \in Calls :
        (Done(c) /\ Done(d) /\ SameButEnabled(c, d)) =>
            /\ spans[c] = spans[d]
            /\ ret[c] = ret[d]
            /\ uow[c] = uow[d]
    /\ reply.op = "is_enabled" => reply.v = config[reply.arg.v].enabled

\* the same trace_llm call has ended OK on the enabled and on the disabled
\* instance, with the same span, and is_enabled has reported False
C18_Witness ==
    \E c, d \in Calls :
        /\ Done(c) /\ Done(d) /\ SameButEnabled(c, d)
        /\ IsLlm(d) /\ spans[d].status = "OK"
        /\ HasAttr(spans[d], LLM_COMPLETION)
        /\ spans[c] = spans[d]
        /\ reply.op = "is_enabled" /\ reply.v = B(FALSE)

\* the span a finished call c would have made had it run alone: its own
\* common, pre-call and post-call writes on a fresh span, then the duration
\* it measured and OK, or its own failure recorded and ERROR, then the end
SpanAlone(c) ==
    LET common == _set_common_attrs(ConfigOf(c), args[c].metadata, args[c].tags)
        pre == IF IsLlm(c) /\ common.exc = NoExc
               THEN _set_llm_pre_attrs(args[c].system, args[c].prompt).writes
               ELSE <<>>
        post == IF IsLlm(c) /\ local[c].digest.done
                THEN _set_llm_post_attrs(local[c].result).writes
                ELSE <<>>
        written == ApplyWrites([NewSpan EXCEPT !.created = 1],
                               common.writes \o pre \o post)
    IN IF ret[c].kind = "returned"
       THEN EndSpan(SetStatus(SetAttribute(written, DURATION_MS,
                                           spans[c].attrs[DURATION_MS]), "OK", ""))
       ELSE IF ret[c].exc.isException
       THEN EndSpan(SetStatus(RecordException(written, ret[c].exc),
                              "ERROR", StrOfExc(ret[c].exc)))
       ELSE EndSpan(written)

\* what belongs to call c
OwnState(c) == <<pc[c], args[c], spans[c], local[c], uow[c], ret[c]>>

\* C17: concurrent traced calls on one instance are independent: under any
\* interleaving, async calls suspended at their unit of work included, a
\* step changes the state of one call only, the span of a call changes only
\* in a step of that call, every span ends with exactly the attributes,
\* events and status of its own call, and no step changes the settings record
\* (the pricing table is a constant of the module).
C17_CallsIndependent ==
    /\ [](\A c \in Calls :
            Done(c) => /\ ret[c].kind = "returned" => HasAttr(spans[c], DURATION_MS)
                       /\ spans[c] = SpanAlone(c))
    /\ [][/\ \A c, d \in Calls :
              (c # d /\ OwnState(c)' # OwnState(c)) => OwnState(d)' = OwnState(d)
          /\ \A c \in Calls : spans'[c] # spans[c] => pc'[c] # pc[c]
          /\ UNCHANGED <<config, environ>>]_vars

\* one call has been suspended at its unit of work while the other ran from
\* start to end, and both have ended with different spans
C17_Witness ==
    \E c, d \in Calls :
        /\ c # d /\ Done(c) /\ Done(d)
        /\ args[c].fn = "coroutinefunction" /\ uow[c].state = "returned"
        /\ IsLlm(c) /\ ~IsLlm(d)
        /\ sink = <<d, c>>
        /\ spans[c].status = "OK" /\ spans[d].status = "ERROR"
        /\ spans[c].attrs # spans[d].attrs

====
